---------------------------- MODULE Spec2Model ----------------------------
(***************************************************************************)
(* The Trezor bridge client of src/src/lib.rs: one TrezorClient owning one *)
(* helper process (deno), a write end to the helper's stdin and a buffered *)
(* reader on its stdout.  The helper is an opaque peer: it may emit any    *)
(* line at any time, close either pipe end, and exit.                      *)
(***************************************************************************)
EXTENDS Naturals, Sequences, FiniteSets, TLC

\* ------------------------------------------------------------------ bounds
\* Request lines a caller's calls write on one client; a caller makes no
\* further call once that many are written (the exit call of drop is not a
\* caller's call and is always made).
MaxCalls == 2
\* Lines the helper has emitted that the client has not yet consumed (those
\* in the OS pipe plus those in the BufReader).
MaxBuf == 2

\* ------------------------------------------------------- JSON values, lines
\* A serde_json::Value as far as the envelope decoding looks at it.
\* kind: "object" or another JSON type; success/payload/error: the member's
\* shape, "absent" when the object has no such member.
JVal(kind, success, payload, error) ==
    [kind |-> kind, success |-> success, payload |-> payload, error |-> error]

NoValue == JVal("-", "-", "-", "-")

V_ok        == JVal("object", "true", "absent", "absent")
V_fail      == JVal("object", "false", "absent", "Device not found")
V_failNoErr == JVal("object", "false", "absent", "absent")
V_features  == JVal("object", "true", "features", "absent")
V_featEmpty == JVal("object", "true", "featuresEmptyIds", "absent")
V_number    == JVal("number", "absent", "absent", "absent")

\* One line of the helper's stdout: raw is the class of its text.
\*   "ws"      only whitespace before the newline
\*   "text"    non-blank text that is not JSON (a banner, a log line)
\*   "badutf8" bytes that are not valid UTF-8
\*   "json"    a JSON text, whose value is v
Line(raw, v) == [raw |-> raw, v |-> v]

L_blank   == Line("ws", NoValue)
L_text    == Line("text", NoValue)
L_badutf8 == Line("badutf8", NoValue)

\* What read_line leaves in line at end of stream: the empty string.
L_eof == Line("eof", NoValue)

JsonValues == {V_ok, V_fail, V_failNoErr, V_features, V_featEmpty, V_number}

\* Everything the helper may print.
HelperLines == {L_blank, L_text, L_badutf8} \cup {Line("json", v) : v \in JsonValues}

\* ---------------------------------------------------------------- requests
Paths == {"m/44'/0'/0'", "m/84'/0'/0'"}
Coins == {"Bitcoin", "Testnet"}
Flags == BOOLEAN

Req(command, keys, path, coin, show) ==
    [command |-> command, keys |-> keys, path |-> path, coin |-> coin,
    showOnTrezor |-> show]

NoReq == Req("-", {}, "-", "-", "-")

ReqInit == Req("init", {"command"}, "-", "-", "-")

ReqGetFeatures == Req("getFeatures", {"command"}, "-", "-", "-")

\* Variant: the two arguments of get_public_key change places in the request.
ReqGetPublicKey_Swapped(path, coin) ==
    Req("getpk", {"command", "path", "coin"}, coin, path, "-")

ReqGetPublicKey(path, coin) == Req("getpk", {"command", "path", "coin"}, path, coin, "-")

\* json!() of a bool: the JSON literal true or false.
JsonBool(b) == IF b THEN "true" ELSE "false"

ReqGetAddress(path, coin, show_on_trezor) ==
    Req("getaddr", {"command", "path", "coin", "showOnTrezor"}, path, coin,
        JsonBool(show_on_trezor))

ReqExit == Req("exit", {"command"}, "-", "-", "-")

\* A call of a dispatcher method: the method and the arguments the caller
\* passes ("-" and FALSE where the method has no such parameter).
Call(method, path, coin, show_on_trezor) ==
    [method |-> method, path |-> path, coin |-> coin, show_on_trezor |-> show_on_trezor]

NoCall == Call("-", "-", "-", FALSE)

\* The calls a caller can make.
Calls ==
    {Call(m, "-", "-", FALSE) : m \in {"init", "get_features", "exit"}}
      \cup {Call("get_public_key", p, c, FALSE) : p \in Paths, c \in Coins}
      \cup {Call("get_address", p, c, f) : p \in Paths, c \in Coins, f \in Flags}

\* The json!() request each dispatcher method builds from its arguments.
RequestOf(c) ==
    CASE c.method = "init"           -> ReqInit
      [] c.method = "get_features"   -> ReqGetFeatures
      [] c.method = "get_public_key" -> ReqGetPublicKey(c.path, c.coin)
      [] c.method = "get_address"    -> ReqGetAddress(c.path, c.coin, c.show_on_trezor)
      [] c.method = "exit"           -> ReqExit

\* The payload type T of the TrezorResponse<T> each dispatcher method decodes.
PayloadType(command) ==
    CASE command = "init"        -> "unit"
      [] command = "exit"        -> "unit"
      [] command = "getFeatures" -> "features"
      [] command = "getpk"       -> "pubkey"
      [] command = "getaddr"     -> "address"


\* ------------------------------------------------- results of the operations
\* Result<Value, HardwareError> of send_command.
SR(tag, kind, details, v) == [tag |-> tag, kind |-> kind, details |-> details, v |-> v]

NoResp == SR("-", "-", "-", NoValue)

SendOk(v) == SR("Ok", "-", "-", v)

SendErr(kind, details) == SR("Err", kind, details, NoValue)

\* What a dispatcher method or a facade returns.  of: the operation;
\* tag: "Ok", "Err" or "Panic"; kind/details: the HardwareError; success,
\* payload, error: the fields of a TrezorResponse<T> (payload and error are
\* Options: "None" when absent); details of an Ok facade result is the value.
R(of, tag, kind, details, success, payload, error) ==
    [of |-> of, tag |-> tag, kind |-> kind, details |-> details,
     success |-> success, payload |-> payload, error |-> error]

NoResult == R("-", "-", "-", "-", "-", "-", "-")

Err(of, kind, details) == R(of, "Err", kind, details, "-", "-", "-")

OkEnvelope(of, success, payload, error) == R(of, "Ok", "-", "-", success, payload, error)

OkValue(of, value) == R(of, "Ok", "-", value, "-", "-", "-")

Panicked(of, message) == R(of, "Panic", "-", message, "-", "-", "-")

\* ----------------------------------------------------- send_command, pure part
\* Variant: the empty check without the trim.
IsEmptyAfterTrim_NoTrim(l) == l.raw = "eof"

\* line.trim().is_empty()
IsEmptyAfterTrim(l) == l.raw \in {"eof", "ws"}

\* serde_json::from_str(s) succeeds
ParsesAsJson(l) == l.raw = "json"

\* The serde_json error text for a line that is not JSON.
ParseDiagnostic(l) == "expected value at line 1 column 1"

\* json!({ "success": false, "error": "Empty output" })
EmptyOutputEnvelope == JVal("object", "false", "absent", "Empty output")

\* json!({ "success": false, "error": format!("JSON parse error: {}", e) })
ParseErrorEnvelope(l) ==
    JVal("object", "false", "absent", "JSON parse error: " \o ParseDiagnostic(l))

\* Variant: the parse error is returned as an error instead of an envelope.
InterpretLine_Propagate(l) ==
    IF IsEmptyAfterTrim(l) THEN SendOk(EmptyOutputEnvelope)
    ELSE IF ~ParsesAsJson(l) THEN SendErr("JsonError", ParseDiagnostic(l))
    ELSE SendOk(l.v)

\* send_command after read_line returned Ok: trim, empty check, parse.
InterpretLine(l) ==
    IF IsEmptyAfterTrim(l) THEN SendOk(EmptyOutputEnvelope)
    ELSE IF ~ParsesAsJson(l) THEN SendOk(ParseErrorEnvelope(l))
    ELSE SendOk(l.v)

\* read_line's own result for the line it took from the stream.
ReadLineFails(l) == l.raw = "badutf8"

\* Variant: the end of the stream is reported as an error of the read.
AfterReadLine_EofError(l) ==
    IF ReadLineFails(l) THEN SendErr("IoError", "stream did not contain valid UTF-8")
    ELSE IF l.raw = "eof" THEN SendErr("IoError", "unexpected end of file")
    ELSE InterpretLine(l)

AfterReadLine(l) ==
    IF ReadLineFails(l) THEN SendErr("IoError", "stream did not contain valid UTF-8")
    ELSE InterpretLine(l)

\* ------------------------------------------------------------ envelope decoder
\* serde_json::from_value::<TrezorResponse<T>>: the payload shapes T accepts.
PayloadFits(T, p) ==
    CASE T = "unit"     -> FALSE
      [] T = "features" -> p \in {"features", "featuresEmptyIds"}
      [] T = "pubkey"   -> p = "pubkey"
      [] T = "address"  -> p = "address"

OptionOf(member) == IF member \in {"absent", "null"} THEN "None" ELSE member

DecodeEnvelope(of, T, v) ==
    IF v.kind # "object"
      THEN Err(of, "JsonError", "invalid type, expected struct TrezorResponse")
    ELSE IF v.success \notin {"true", "false"}
      THEN Err(of, "JsonError", "missing field success")
    ELSE IF OptionOf(v.payload) # "None" /\ ~PayloadFits(T, v.payload)
      THEN Err(of, "JsonError", "payload does not match the declared type")
    ELSE IF v.success = "true" /\ OptionOf(v.payload) = "None" /\ T # "unit"
      THEN Err(of, "JsonError", "missing payload on a success envelope")
    ELSE OkEnvelope(of, v.success, OptionOf(v.payload), OptionOf(v.error))

\* ------------------------------------------------------------------ dispatcher
\* Variant: a dispatcher method that treats a decode failure as send_command
\* treats a parse failure, answering Ok with an unsuccessful envelope.
Dispatch_Downgrade(command, sr) ==
    IF sr.tag = "Err" THEN Err(command, sr.kind, sr.details)
    ELSE IF DecodeEnvelope(command, PayloadType(command), sr.v).tag = "Err"
      THEN OkEnvelope(command, "false", "None",
                      DecodeEnvelope(command, PayloadType(command), sr.v).details)
    ELSE DecodeEnvelope(command, PayloadType(command), sr.v)

\* init / get_features / get_public_key / get_address / exit after
\* send_command returned sr: ? on the error, from_value on the value.
Dispatch(command, sr) ==
    IF sr.tag = "Err" THEN Err(command, sr.kind, sr.details)
    ELSE DecodeEnvelope(command, PayloadType(command), sr.v)

\* Variant: unwrap_or_default(), an absent error string becomes the empty
\* message.
ErrorMessage_Default(t) == IF t.error = "None" THEN "" ELSE t.error

\* error.unwrap_or_else(|| "Unknown error".to_string())
ErrorMessage(t) == IF t.error = "None" THEN "Unknown error" ELSE t.error

\* Variant: every error of init() is mapped to InitializationError.
InitializeResult_MapAll(t) ==
    IF t.tag = "Err" THEN Err("initialize", "InitializationError", t.details)
    ELSE IF t.success = "true" THEN OkValue("initialize", "Trezor library initialized")
    ELSE Err("initialize", "InitializationError", ErrorMessage(t))

\* initialize() after trezor.init() returned t.
InitializeResult(t) ==
    IF t.tag = "Err" THEN Err("initialize", t.kind, t.details)
    ELSE IF t.success = "true" THEN OkValue("initialize", "Trezor library initialized")
    ELSE Err("initialize", "InitializationError", ErrorMessage(t))

\* Variant: the payload is unwrapped before success is looked at.
GetDeviceFeaturesResult_UnwrapFirst(t) ==
    IF t.tag = "Err" THEN Err("get_device_features", t.kind, t.details)
    ELSE IF t.payload = "None"
      THEN Panicked("get_device_features", "called Option::unwrap() on a None value")
    ELSE IF t.success = "true" THEN OkValue("get_device_features", t.payload)
    ELSE Err("get_device_features", "InitializationError", ErrorMessage(t))

\* get_device_features() after trezor.get_features() returned t.
GetDeviceFeaturesResult(t) ==
    IF t.tag = "Err" THEN Err("get_device_features", t.kind, t.details)
    ELSE IF t.success = "true"
      THEN IF t.payload = "None"
             THEN Panicked("get_device_features", "called Option::unwrap() on a None value")
             ELSE OkValue("get_device_features", t.payload)
    ELSE Err("get_device_features", "InitializationError", ErrorMessage(t))

\* Variant: drop returns early when exit() failed.
DropAfterExit_SkipOnErr(t) == IF t.tag = "Err" THEN "dropEnd" ELSE "wait"

\* Variant: drop unwraps the result of exit().
DropAfterExit_Unwrap(t) == IF t.tag = "Err" THEN "panic" ELSE "wait"

\* Drop::drop after let _ = self.exit(); returned t: go on to wait.
DropAfterExit(t) == "wait"

\* ----------------------------------------------------------------------- state
VARIABLES
    client,       \* "none": no TrezorClient value; "live"; "dropped": drop returned
    stdinHandle,  \* self.process.stdin: "Some" or "None"
    proc,         \* the helper process: "none", "running", "exiting", "zombie"
    hStdin,       \* the helper still holds the read end of its stdin open
    hStdout,      \* the helper still holds the write end of its stdout open
    pipe,         \* number of lines in the stdout pipe that no read has fetched
    rbuf,         \* number of lines fetched into self.reader and not yet returned
    op,           \* the caller's operation in progress
    dropping,     \* Drop::drop is running
    pc,           \* position inside send_command / drop / the facade
    cmd,          \* the request of the send_command in progress
    written,      \* request lines written to this client's helper
    consumed,     \* response lines consumed from this client's helper
    callReqs,     \* request lines written by the current (or last) send_command
    callLines,    \* response lines consumed by the current (or last) send_command
    prevRaw,      \* how the send_command before the current (or last) one read
    early,        \* a line was already buffered when the current request was written
    invoked,      \* the dispatcher method and arguments of the current (or last) call
    exitCalled,   \* the caller has called exit() on this client and it returned
    resp,         \* what the last finished send_command returned
    result,       \* what the caller's last finished operation returned
    pending,      \* initialize()'s return value while its client is torn down
    dropExit,     \* what self.exit() returned inside the current (or last) drop
    waitRes       \* what self.process.wait() returned inside the last drop

vars == <<client, stdinHandle, proc, hStdin, hStdout, pipe, rbuf, op, dropping, pc, cmd,
          written, consumed, callReqs, callLines, prevRaw, early, invoked, exitCalled, resp,
          result, pending, dropExit, waitRes>>

helperVars == <<proc, hStdin, hStdout, pipe>>

clientVars == <<client, stdinHandle, rbuf, op, dropping, pc, cmd, written, consumed,
                callReqs, callLines, prevRaw, early, invoked, exitCalled, resp, result,
                pending, dropExit, waitRes>>

Init ==
    /\ client = "none"
    /\ stdinHandle = "None"
    /\ proc = "none"
    /\ hStdin = FALSE
    /\ hStdout = FALSE
    /\ pipe = 0
    /\ rbuf = 0
    /\ op = "none"
    /\ dropping = FALSE
    /\ pc = "idle"
    /\ cmd = NoReq
    /\ written = 0
    /\ consumed = 0
    /\ callReqs = <<>>
    /\ callLines = <<>>
    /\ prevRaw = "none"
    /\ early = FALSE
    /\ invoked = NoCall
    /\ exitCalled = FALSE
    /\ resp = NoResp
    /\ result = NoResult
    /\ pending = NoResult
    /\ dropExit = NoResult
    /\ waitRes = "-"

\* How the last send_command read: "ws" for a blank line, "text" for a line
\* that is not JSON, "other" for the rest, "none" when there was none.
LastRaw ==
    IF callLines # <<>> /\ callLines[1].raw \in {"ws", "text"} THEN callLines[1].raw
    ELSE IF resp.tag = "-" THEN "none"
    ELSE "other"

\* ---------------------------------------------------------------- the helper
\* The helper prints a line on its stdout.  What the line says is the
\* helper's choice; it is fixed when the client reads the line, the first
\* place where anything depends on it.
HelperEmit ==
    /\ proc \in {"running", "exiting"}
    /\ hStdout
    /\ pipe + rbuf < MaxBuf
    /\ pipe' = pipe + 1
    /\ UNCHANGED <<proc, hStdin, hStdout>>
    /\ UNCHANGED clientVars

\* The helper closes its stdout (the reader then meets the end of the stream
\* once the lines already written are consumed).
HelperCloseStdout ==
    /\ proc \in {"running", "exiting"}
    /\ hStdout
    /\ hStdout' = FALSE
    /\ UNCHANGED <<proc, hStdin, pipe>>
    /\ UNCHANGED clientVars

\* The helper closes its stdin (a later write fails with a broken pipe).
HelperCloseStdin ==
    /\ proc \in {"running", "exiting"}
    /\ hStdin
    /\ hStdin' = FALSE
    /\ UNCHANGED <<proc, hStdout, pipe>>
    /\ UNCHANGED clientVars

\* The helper starts to terminate (on an exit command, on the end of its
\* stdin, on a crash): from here on it only winds down.
HelperBeginExit ==
    /\ proc = "running"
    /\ proc' = "exiting"
    /\ UNCHANGED <<hStdin, hStdout, pipe>>
    /\ UNCHANGED clientVars

\* The helper process ends: both pipe ends close, the process stays a zombie
\* until it is waited on.
HelperExit ==
    /\ proc = "exiting"
    /\ proc' = "zombie"
    /\ hStdin' = FALSE
    /\ hStdout' = FALSE
    /\ UNCHANGED pipe
    /\ UNCHANGED clientVars

\* ----------------------------------------------------------------- the client
\* Variant: new() takes the stdin handle out of the Child as it takes the
\* stdout handle, and does not keep it.
FreshClient_StdinTaken ==
    /\ client' = "live"
    /\ stdinHandle' = "None"
    /\ proc' = "running"
    /\ hStdin' = TRUE
    /\ hStdout' = TRUE
    /\ pipe' = 0
    /\ rbuf' = 0
    /\ written' = 0
    /\ consumed' = 0
    /\ callReqs' = <<>>
    /\ callLines' = <<>>
    /\ prevRaw' = "none"
    /\ early' = FALSE
    /\ exitCalled' = FALSE
    /\ resp' = NoResp
    /\ pending' = NoResult
    /\ dropExit' = NoResult
    /\ waitRes' = "-"
    /\ dropping' = FALSE

\* TrezorClient::new after a successful spawn: a running helper, both pipes
\* open and empty, stdin held by the Child, a BufReader on its stdout.
FreshClient ==
    /\ client' = "live"
    /\ stdinHandle' = "Some"
    /\ proc' = "running"
    /\ hStdin' = TRUE
    /\ hStdout' = TRUE
    /\ pipe' = 0
    /\ rbuf' = 0
    /\ written' = 0
    /\ consumed' = 0
    /\ callReqs' = <<>>
    /\ callLines' = <<>>
    /\ prevRaw' = "none"
    /\ early' = FALSE
    /\ exitCalled' = FALSE
    /\ resp' = NoResp
    /\ pending' = NoResult
    /\ dropExit' = NoResult
    /\ waitRes' = "-"
    /\ dropping' = FALSE

\* What a failed spawn leaves as it was: everything but the caller's result.
SpawnFailedFrame ==
    UNCHANGED <<client, stdinHandle, proc, hStdin, hStdout, pipe, rbuf, op, dropping, pc,
                cmd, written, consumed, callReqs, callLines, prevRaw, early, invoked,
                exitCalled, resp, pending, dropExit, waitRes>>

SpawnError == "No such file or directory (os error 2)"

\* A caller constructs a client: TrezorClient::new().
New(spawnOk) ==
    /\ client # "live"
    /\ op = "none"
    /\ pc = "idle"
    /\ IF spawnOk
         THEN /\ FreshClient
              /\ result' = OkValue("new", "TrezorClient")
              /\ invoked' = NoCall
              /\ cmd' = NoReq
              /\ UNCHANGED <<op, pc>>
         ELSE /\ result' = Err("new", "IoError", SpawnError)
              /\ SpawnFailedFrame

\* The head of send_command: a new exchange begins with request r.
StartSend(r) ==
    /\ cmd' = r
    /\ pc' = "write"
    /\ callReqs' = <<>>
    /\ callLines' = <<>>
    /\ prevRaw' = LastRaw
    /\ early' = FALSE
    /\ resp' = NoResp

\* A caller calls a dispatcher method on its client.
BeginCall(c) ==
    /\ client = "live"
    /\ op = "none"
    /\ pc = "idle"
    /\ written < MaxCalls
    /\ op' = "call"
    /\ result' = NoResult
    /\ invoked' = c
    /\ StartSend(RequestOf(c))
    /\ UNCHANGED <<client, stdinHandle, rbuf, dropping, written, consumed, exitCalled,
                   pending, dropExit, waitRes>>
    /\ UNCHANGED helperVars

\* A caller calls get_device_features(&mut client).
BeginGetDeviceFeatures ==
    /\ client = "live"
    /\ op = "none"
    /\ pc = "idle"
    /\ written < MaxCalls
    /\ op' = "gdf"
    /\ result' = NoResult
    /\ invoked' = Call("get_features", "-", "-", FALSE)
    /\ StartSend(ReqGetFeatures)
    /\ UNCHANGED <<client, stdinHandle, rbuf, dropping, written, consumed, exitCalled,
                   pending, dropExit, waitRes>>
    /\ UNCHANGED helperVars

\* A caller calls initialize(): new(), then init() on the new client.
BeginInitialize(spawnOk) ==
    /\ client # "live"
    /\ op = "none"
    /\ pc = "idle"
    /\ IF spawnOk
         THEN /\ FreshClient
              /\ op' = "initialize"
              /\ invoked' = Call("init", "-", "-", FALSE)
              /\ cmd' = ReqInit
              /\ pc' = "write"
              /\ result' = NoResult
         ELSE /\ result' = Err("initialize", "IoError", SpawnError)
              /\ SpawnFailedFrame

\* send_command returns sr to the dispatcher method, which decodes and
\* returns to its caller: Drop::drop, initialize, get_device_features, or
\* the caller of the method.
FinishSend(sr) ==
    LET t == Dispatch(cmd.command, sr) IN
    /\ resp' = sr
    /\ cmd' = NoReq
    /\ IF dropping
         THEN /\ dropExit' = t
              /\ pc' = DropAfterExit(t)
              /\ UNCHANGED <<op, result, pending, exitCalled>>
         ELSE /\ UNCHANGED dropExit
              /\ CASE op = "call" ->
                        /\ result' = t
                        /\ op' = "none"
                        /\ pc' = "idle"
                        /\ exitCalled' = (exitCalled \/ cmd.command = "exit")
                        /\ UNCHANGED pending
                   [] op = "gdf" ->
                        /\ result' = GetDeviceFeaturesResult(t)
                        /\ IF GetDeviceFeaturesResult(t).tag = "Panic"
                             THEN pc' = "unwind" /\ UNCHANGED op
                             ELSE pc' = "idle" /\ op' = "none"
                        /\ UNCHANGED <<pending, exitCalled>>
                   [] op = "initialize" ->
                        /\ pending' = InitializeResult(t)
                        /\ pc' = "scopeEnd"
                        /\ UNCHANGED <<op, result, exitCalled>>

\* Variant: a send_command that reads a response line before it reports the
\* failed write.
Write_ReadOnFailure ==
    /\ pc = "write"
    /\ IF stdinHandle = "None"
         THEN /\ FinishSend(SendErr("CommunicationError", "Failed to get stdin"))
              /\ UNCHANGED <<written, callReqs, early, rbuf, pipe, consumed>>
         ELSE IF ~hStdin
         THEN /\ FinishSend(SendErr("IoError", "Broken pipe (os error 32)"))
              /\ IF rbuf > 0
                   THEN rbuf' = rbuf - 1 /\ consumed' = consumed + 1 /\ UNCHANGED pipe
                   ELSE IF pipe > 0
                   THEN rbuf' = pipe - 1 /\ pipe' = 0 /\ consumed' = consumed + 1
                   ELSE UNCHANGED <<rbuf, pipe, consumed>>
              /\ UNCHANGED <<written, callReqs, early>>
         ELSE /\ written' = written + 1
              /\ callReqs' = Append(callReqs, cmd)
              /\ early' = (rbuf + pipe > 0)
              /\ pc' = "read"
              /\ UNCHANGED <<op, cmd, resp, result, pending, dropExit, exitCalled>>
              /\ UNCHANGED <<rbuf, pipe, consumed>>
    /\ UNCHANGED <<client, stdinHandle, dropping, callLines, prevRaw, invoked, waitRes>>
    /\ UNCHANGED <<proc, hStdin, hStdout>>

\* Variant: a send_command that discards the lines already buffered when it
\* has written its request, so that it reads a line emitted afterwards.
Write_FlushStale ==
    /\ pc = "write"
    /\ IF stdinHandle = "None"
         THEN /\ FinishSend(SendErr("CommunicationError", "Failed to get stdin"))
              /\ UNCHANGED <<written, callReqs, early, rbuf, pipe, consumed>>
         ELSE IF ~hStdin
         THEN /\ FinishSend(SendErr("IoError", "Broken pipe (os error 32)"))
              /\ UNCHANGED <<written, callReqs, early, rbuf, pipe, consumed>>
         ELSE /\ written' = written + 1
              /\ callReqs' = Append(callReqs, cmd)
              /\ early' = (rbuf + pipe > 0)
              /\ rbuf' = 0
              /\ pipe' = 0
              /\ consumed' = consumed + rbuf + pipe
              /\ pc' = "read"
              /\ UNCHANGED <<op, cmd, resp, result, pending, dropExit, exitCalled>>
    /\ UNCHANGED <<client, stdinHandle, dropping, callLines, prevRaw, invoked, waitRes>>
    /\ UNCHANGED <<proc, hStdin, hStdout>>

\* send_command, lines 41-48: write the request line and flush.
Write ==
    /\ pc = "write"
    /\ IF stdinHandle = "None"
         THEN /\ FinishSend(SendErr("CommunicationError", "Failed to get stdin"))
              /\ UNCHANGED <<written, callReqs, early>>
         ELSE IF ~hStdin
         THEN /\ FinishSend(SendErr("IoError", "Broken pipe (os error 32)"))
              /\ UNCHANGED <<written, callReqs, early>>
         ELSE /\ written' = written + 1
              /\ callReqs' = Append(callReqs, cmd)
              /\ early' = (rbuf + pipe > 0)
              /\ pc' = "read"
              /\ UNCHANGED <<op, cmd, resp, result, pending, dropExit, exitCalled>>
    /\ UNCHANGED <<client, stdinHandle, rbuf, dropping, consumed, callLines, prevRaw,
                   invoked,
                   waitRes>>
    /\ UNCHANGED helperVars

\* Variant: a read that goes on waiting at the end of the stream.
ReadReady_NoEof == rbuf > 0 \/ pipe > 0

\* Variant: a read that gives up after a while and reports an empty line.
ReadReady_Timeout == TRUE

\* read_line can return: the reader's buffer or the pipe holds a line, or
\* the stream has ended.
ReadReady == rbuf > 0 \/ pipe > 0 \/ ~hStdout

\* Variant: the read takes every line that is buffered, not only the first.
Read_Drain(l) ==
    /\ pc = "read"
    /\ ReadReady
    /\ IF rbuf + pipe > 0
         THEN /\ l \in HelperLines
              /\ rbuf' = 0
              /\ pipe' = 0
              /\ callLines' = [i \in 1..(rbuf + pipe) |-> l]
              /\ consumed' = consumed + rbuf + pipe
         ELSE /\ l = L_eof
              /\ UNCHANGED <<rbuf, pipe, callLines, consumed>>
    /\ FinishSend(AfterReadLine(l))
    /\ UNCHANGED <<client, stdinHandle, dropping, written, callReqs, prevRaw, early,
                   invoked, waitRes>>
    /\ UNCHANGED <<proc, hStdin, hStdout>>

\* Variant: the read looks at the first line and leaves it in the buffer.
Read_Peek(l) ==
    /\ pc = "read"
    /\ ReadReady
    /\ IF rbuf + pipe > 0
         THEN /\ l \in HelperLines
              /\ rbuf' = rbuf + pipe
              /\ pipe' = 0
              /\ callLines' = Append(callLines, l)
              /\ UNCHANGED consumed
         ELSE /\ l = L_eof
              /\ UNCHANGED <<rbuf, pipe, callLines, consumed>>
    /\ FinishSend(AfterReadLine(l))
    /\ UNCHANGED <<client, stdinHandle, dropping, written, callReqs, prevRaw, early,
                   invoked, waitRes>>
    /\ UNCHANGED <<proc, hStdin, hStdout>>

\* send_command, lines 50-70: read_line blocks until it can return; a read
\* of the pipe fetches what is there into the reader's buffer, and read_line
\* returns the first line, which says l (L_eof: nothing, the stream ended).
Read(l) ==
    /\ pc = "read"
    /\ ReadReady
    /\ IF rbuf > 0
         THEN /\ l \in HelperLines
              /\ rbuf' = rbuf - 1
              /\ callLines' = Append(callLines, l)
              /\ consumed' = consumed + 1
              /\ UNCHANGED pipe
         ELSE IF pipe > 0
         THEN /\ l \in HelperLines
              /\ rbuf' = pipe - 1
              /\ pipe' = 0
              /\ callLines' = Append(callLines, l)
              /\ consumed' = consumed + 1
         ELSE /\ l = L_eof
              /\ UNCHANGED <<rbuf, pipe, callLines, consumed>>
    /\ FinishSend(AfterReadLine(l))
    /\ UNCHANGED <<client, stdinHandle, dropping, written, callReqs, prevRaw, early,
                   invoked, waitRes>>
    /\ UNCHANGED <<proc, hStdin, hStdout>>

\* Variant: drop only waits, without the exit command.
DropStart_NoExit ==
    /\ client = "live"
    /\ ~dropping
    /\ (pc = "idle" /\ op = "none") \/ pc \in {"scopeEnd", "unwind"}
    /\ dropping' = TRUE
    /\ result' = IF op = "none" THEN NoResult ELSE result
    /\ pc' = "wait"
    /\ UNCHANGED <<client, stdinHandle, rbuf, op, cmd, written, consumed, callReqs,
                   callLines, prevRaw, early, invoked, resp, exitCalled, pending,
                   dropExit, waitRes>>
    /\ UNCHANGED helperVars

\* The client value is dropped: by its owner, at the end of initialize()'s
\* scope, or while a panic unwinds.  Drop::drop starts with self.exit().
DropStart ==
    /\ client = "live"
    /\ ~dropping
    /\ (pc = "idle" /\ op = "none") \/ pc \in {"scopeEnd", "unwind"}
    /\ dropping' = TRUE
    /\ result' = IF op = "none" THEN NoResult ELSE result
    /\ invoked' = Call("exit", "-", "-", FALSE)
    /\ StartSend(ReqExit)
    /\ UNCHANGED <<client, stdinHandle, rbuf, op, written, consumed, exitCalled, pending,
                   dropExit, waitRes>>
    /\ UNCHANGED helperVars

\* Child::wait, first half: it closes the child's stdin.
WaitCloseStdin ==
    /\ pc = "wait"
    /\ stdinHandle' = "None"
    /\ pc' = "reap"
    /\ UNCHANGED <<client, rbuf, op, dropping, cmd, written, consumed, callReqs, callLines,
                   prevRaw, early, invoked, exitCalled, resp, result, pending, dropExit,
                   waitRes>>
    /\ UNCHANGED helperVars

\* Variant: try_wait in place of wait, the teardown does not block until the
\* helper has ended.
WaitReap_TryWait(outcome) ==
    /\ pc = "reap"
    /\ proc' = IF proc = "zombie" THEN "none" ELSE proc
    /\ waitRes' = outcome
    /\ pc' = "dropEnd"
    /\ UNCHANGED <<client, stdinHandle, rbuf, op, dropping, cmd, written, consumed,
                   callReqs, callLines, prevRaw, early, invoked, exitCalled, resp,
                   result, pending, dropExit>>
    /\ UNCHANGED <<hStdin, hStdout, pipe>>

\* Child::wait, second half: it blocks until the helper has ended and
\* collects it; its io::Result is discarded by let _ =.
WaitReap(outcome) ==
    /\ pc = "reap"
    /\ proc = "zombie"
    /\ proc' = "none"
    /\ waitRes' = outcome
    /\ pc' = "dropEnd"
    /\ UNCHANGED <<client, stdinHandle, rbuf, op, dropping, cmd, written, consumed,
                   callReqs, callLines, prevRaw, early, invoked, exitCalled, resp,
                   result, pending, dropExit>>
    /\ UNCHANGED <<hStdin, hStdout, pipe>>

\* Drop::drop returns and the fields are dropped with the client (the
\* reader and the pipe ends close); initialize() returns the value it had
\* computed.
DropEnd ==
    /\ pc = "dropEnd"
    /\ client' = "dropped"
    /\ dropping' = FALSE
    /\ pc' = "idle"
    /\ op' = "none"
    /\ rbuf' = 0
    /\ pipe' = 0
    /\ result' = IF op = "initialize" THEN pending ELSE result
    /\ UNCHANGED <<stdinHandle, cmd, written, consumed, callReqs, callLines, prevRaw,
                   early, invoked, exitCalled, resp, pending, dropExit, waitRes>>
    /\ UNCHANGED <<proc, hStdin, hStdout>>

\* The request lines the dispatcher methods can build.
Requests == {RequestOf(c) : c \in Calls}

Next ==
    \/ \E ok \in BOOLEAN : New(ok)
    \/ \E c \in Calls : BeginCall(c)
    \/ BeginGetDeviceFeatures
    \/ \E ok \in BOOLEAN : BeginInitialize(ok)
    \/ Write
    \/ \E l \in HelperLines \cup {L_eof} : Read(l)
    \/ DropStart
    \/ WaitCloseStdin
    \/ \E o \in {"Ok", "Err"} : WaitReap(o)
    \/ DropEnd
    \/ HelperEmit
    \/ HelperCloseStdout
    \/ HelperCloseStdin
    \/ HelperBeginExit
    \/ HelperExit

Spec == Init /\ [][Next]_vars

\* The calling thread keeps running (each step of send_command and of drop
\* is taken when it can be), and a helper that has begun to terminate ends.
LiveSpec ==
    /\ Spec
    /\ WF_vars(Write)
    /\ WF_vars(\E l \in HelperLines \cup {L_eof} : Read(l))
    /\ WF_vars(WaitCloseStdin)
    /\ WF_vars(\E o \in {"Ok", "Err"} : WaitReap(o))
    /\ WF_vars(DropEnd)
    /\ WF_vars(HelperExit)

\* LiveSpec with a helper that does not stay silent while a request waits for
\* its line: it eventually emits a line or closes its stdout.
ResponsiveSpec ==
    /\ LiveSpec
    /\ WF_vars(pc = "read" /\ (HelperEmit \/ HelperCloseStdout))

\* ------------------------------------------------------------------ properties
\* A send_command has returned and no other has begun since: callReqs,
\* callLines and resp describe that one exchange.
CallReturned == pc \notin {"write", "read"} /\ resp.tag # "-"

WriteFailed == resp.tag = "Err" /\ resp.kind \in {"IoError", "CommunicationError"}
                 /\ callReqs = <<>>

\* C1 as stated: after every call exactly one request line was written and
\* exactly one response line was consumed, and no emitted line is left in the
\* reader or the pipe for a later call.
C1_Original ==
    CallReturned => /\ Len(callReqs) = 1
                    /\ Len(callLines) = 1
                    /\ rbuf + pipe = 0

\* C1 amended: a call writes at most one request line and consumes at most
\* one response line, never a line without a request; it writes exactly one
\* unless the write fails, and consumes exactly one when it wrote and the
\* helper's stdout is still open when it returns; a call that wrote and
\* consumed nothing met the end of the stream.
C1_OneExchange ==
    CallReturned =>
      /\ Len(callReqs) <= 1
      /\ Len(callLines) <= Len(callReqs)
      /\ (callReqs = <<>>) <=> WriteFailed
      /\ (Len(callReqs) = 1 /\ hStdout) => Len(callLines) = 1
      /\ (Len(callReqs) = 1 /\ callLines = <<>>) =>
            (~hStdout /\ rbuf + pipe = 0 /\ resp = SendOk(EmptyOutputEnvelope))

\* A call has returned with its one request and one line, and a further line
\* of the helper sits in the reader's buffer for the next call.
C1_Witness ==
    /\ CallReturned
    /\ Len(callReqs) = 1
    /\ Len(callLines) = 1
    /\ rbuf = 1

\* C2 as stated: every finished destruction has issued the exit command to
\* the helper and reaped the process.
C2_Original ==
    client = "dropped" => (callReqs = <<ReqExit>> /\ proc = "none")

\* C2 amended: every destruction calls exit() first and waits afterwards;
\* the exit request line is written unless that write fails with a broken
\* pipe (the IoError is discarded), and a destruction that has returned has
\* closed stdin and reaped the process, whatever happened in earlier calls.
C2_ExitThenReap ==
    /\ (dropping /\ pc \in {"wait", "reap", "dropEnd"}) => dropExit.of = "exit"
    /\ (dropping /\ pc = "read") => callReqs = <<ReqExit>>
    /\ client = "dropped" =>
         /\ dropExit.of = "exit"
         /\ \/ callReqs = <<ReqExit>>
            \/ callReqs = <<>> /\ dropExit = Err("exit", "IoError",
                            "Broken pipe (os error 32)")
         /\ stdinHandle = "None"
         /\ waitRes \in {"Ok", "Err"}
         /\ proc = "none"

\* A client whose last command before the teardown read a line that is not
\* JSON (an unsuccessful envelope) has been destroyed: exit written, reaped.
C2_Witness ==
    /\ client = "dropped"
    /\ prevRaw = "text"
    /\ callReqs = <<ReqExit>>
    /\ waitRes = "Ok"
    /\ proc = "none"

\* The request of the exchange that callReqs, callLines and resp describe.
LastCommand == IF callReqs = <<>> THEN "-" ELSE callReqs[1].command

\* That exchange was a dispatcher method called by the caller itself, and
\* result is what the method returned.
DirectCallReturned ==
    CallReturned /\ ~dropping /\ op = "none" /\ client = "live" /\ result.of = LastCommand

\* That exchange was made by get_device_features, which has returned.
FeaturesCallReturned ==
    CallReturned /\ ~dropping /\ op = "none" /\ client = "live"
      /\ result.of = "get_device_features"

\* C3: a call that reads a blank line returns Ok with the envelope
\* {success: false, error: "Empty output"} (send_command and the dispatcher
\* method alike), and the next call on the same client, when it reads
\* {"success":true}, returns that successful envelope (for init and exit, the
\* commands without payload, also as the typed response).
C3_EmptyOutput ==
    /\ (CallReturned /\ callLines = <<L_blank>>) =>
          /\ resp = SendOk(JVal("object", "false", "absent", "Empty output"))
          /\ DirectCallReturned =>
                result = OkEnvelope(LastCommand, "false", "None", "Empty output")
          /\ dropping => dropExit = OkEnvelope("exit", "false", "None", "Empty output")
    /\ (CallReturned /\ prevRaw = "ws" /\ callLines = <<Line("json", V_ok)>>) =>
          /\ resp = SendOk(V_ok)
          /\ (DirectCallReturned /\ LastCommand \in {"init", "exit"}) =>
                result = OkEnvelope(LastCommand, "true", "None", "None")

\* The scenario of the spec: a blank line for the first call, {"success":true}
\* for the second, which returns the successful envelope.
C3_Witness ==
    /\ CallReturned
    /\ prevRaw = "ws"
    /\ callLines = <<Line("json", V_ok)>>
    /\ result = OkEnvelope("init", "true", "None", "None")

\* C4: a call that reads a non-blank line that is not JSON returns Ok with an
\* unsuccessful envelope whose error is "JSON parse error: " followed by the
\* parser's diagnostic, and the next call writes its request and returns
\* what the next line says, as it would after any other call.
C4_ParseError ==
    /\ (CallReturned /\ callLines = <<L_text>>) =>
          /\ resp.tag = "Ok"
          /\ resp.v.success = "false"
          /\ resp.v.error = "JSON parse error: expected value at line 1 column 1"
          /\ DirectCallReturned =>
                (result.tag = "Ok" /\ result.success = "false"
                   /\ result.error = resp.v.error)
    /\ (prevRaw = "text" /\ pc = "read") => callReqs = <<cmd>>
    /\ (CallReturned /\ prevRaw = "text" /\ callLines = <<Line("json", V_features)>>) =>
          /\ resp = SendOk(V_features)
          /\ (DirectCallReturned /\ LastCommand = "getFeatures") =>
                result = OkEnvelope("getFeatures", "true", "features", "None")
          /\ FeaturesCallReturned => result = OkValue("get_device_features", "features")

\* After a call that read a line that is not JSON, get_device_features
\* wrote its request, read the features envelope and returned the features.
C4_Witness ==
    /\ CallReturned
    /\ prevRaw = "text"
    /\ callLines = <<Line("json", V_features)>>
    /\ result = OkValue("get_device_features", "features")

\* initialize() has returned after it had constructed its client.
InitializeReturned == op = "none" /\ result.of = "initialize" /\ result.details # SpawnError

\* C5 as stated: every failure of initialize() after the construction is an
\* InitializationError.
C5_Original ==
    (InitializeReturned /\ result.tag = "Err") => result.kind = "InitializationError"

\* C5 amended: when init() returns an unsuccessful envelope, initialize()
\* fails with InitializationError carrying the envelope's message; when
\* init() fails with IoError or JsonError, initialize() returns that same
\* error unchanged; and what initialize() returns after the teardown is what
\* it computed before it.
C5_InitErrors ==
    /\ pc = "scopeEnd" =>
         /\ (resp.tag = "Err") =>
               (pending = Err("initialize", resp.kind, resp.details)
                  /\ resp.kind = "IoError")
         /\ (resp.tag = "Ok" /\ resp.v.kind = "object" /\ resp.v.success = "false") =>
               /\ pending.tag = "Err"
               /\ pending.kind = "InitializationError"
               /\ pending.details =
                     (IF resp.v.error = "absent" THEN "Unknown error" ELSE resp.v.error)
         /\ (pending.tag = "Err" /\ pending.kind = "InitializationError") =>
               (resp.tag = "Ok" /\ resp.v.success = "false")
         /\ pending.tag = "Err" =>
               pending.kind \in {"InitializationError", "IoError", "JsonError"}
    /\ InitializeReturned => result = pending

\* initialize() has failed with the IoError of its init() call.
C5_Witness ==
    /\ InitializeReturned
    /\ client = "dropped"
    /\ result = Err("initialize", "IoError", "stream did not contain valid UTF-8")

C7_SecondTeardownEnds ==
    /\ [](dropExit.tag \in {"-", "Ok", "Err"} /\ pc # "panic")
    /\ (dropping /\ exitCalled /\ proc \in {"exiting", "zombie"}) ~> (client = "dropped")

\* A client on which exit() had been called has been dropped; the second
\* exit met the broken pipe of the helper that had already ended.
C7_Witness ==
    /\ client = "dropped"
    /\ exitCalled
    /\ dropExit = Err("exit", "IoError", "Broken pipe (os error 32)")
    /\ proc = "none"

\* C8: once the exit step of a teardown has returned, whatever it returned,
\* the teardown is at its wait or past it; it returns only after the wait,
\* and neither the result of exit nor that of wait reaches the caller: after
\* a drop the caller holds no error but one of new() or initialize().
C8_WaitAlways ==
    /\ (dropping /\ dropExit.tag # "-") => pc \in {"wait", "reap", "dropEnd"}
    /\ (pc = "dropEnd" \/ client = "dropped") =>
          (waitRes \in {"Ok", "Err"} /\ stdinHandle = "None")
    /\ client = "dropped" =>
          /\ result.tag # "Panic"
          /\ result.tag = "Err" => result.of \in {"new", "initialize"}
          /\ result.of = "initialize" => (result = pending \/ result.details = SpawnError)

\* A teardown whose exit step failed with JsonError and whose wait failed
\* has returned, with nothing for the caller.
C8_Witness ==
    /\ client = "dropped"
    /\ dropExit.tag = "Err"
    /\ dropExit.kind = "JsonError"
    /\ waitRes = "Err"
    /\ result = NoResult

\* C9 as stated: requests written minus responses consumed is 0 between
\* calls and at most 1 during a call.
C9_Original ==
    /\ written <= consumed + 1
    /\ pc \notin {"write", "read"} => written = consumed

\* C9 amended: no more lines are consumed than requests written; while the
\* helper's stdout is open the difference is 0 between calls and exactly 1
\* while a call waits for its line, also after calls that ended in a write
\* error or a read error (only a call that writes and meets the end of the
\* stream leaves its request unanswered).
C9_Outstanding ==
    /\ consumed <= written
    /\ pc = "read" => written >= consumed + 1
    /\ hStdout => written = consumed + (IF pc = "read" THEN 1 ELSE 0)

\* Between calls, after one full exchange and then a call whose write
\* failed: one request written, one line consumed.
C9_Witness ==
    /\ client = "live"
    /\ pc = "idle"
    /\ hStdout
    /\ WriteFailed
    /\ written = 1
    /\ consumed = 1

LiveProcesses == IF proc = "none" THEN 0 ELSE 1

LiveClients == IF client = "live" THEN 1 ELSE 0

\* C10: outside a teardown there is a helper process (alive or not yet
\* reaped) exactly when there is a client; a failed spawn creates neither,
\* and a teardown reaps the process exactly at the end of its wait.
C10_OneProcessPerClient ==
    /\ ~dropping => LiveProcesses = LiveClients
    /\ dropping => (LiveClients = 1 /\ (LiveProcesses = 0 <=> pc = "dropEnd"))

\* After a construct/destroy cycle and a construction that failed at spawn:
\* no client, no process.
C10_Witness ==
    /\ client = "dropped"
    /\ waitRes = "Ok"
    /\ result = Err("new", "IoError", SpawnError)
    /\ LiveProcesses = 0


\* The JSON value v does not have the shape of the TrezorResponse<T> that the
\* dispatcher method of the command decodes: it is not an object, or its
\* payload is not of the command's payload type, or it reports success
\* without the payload a data command requires.
SchemaMismatch(command, v) ==
    \/ v.kind # "object"
    \/ v.payload \in {"features", "featuresEmptyIds"} /\ command # "getFeatures"
    \/ v.success = "true" /\ v.payload = "absent"
         /\ command \in {"getFeatures", "getpk", "getaddr"}

\* C11: for every dispatcher method, a response line that is not JSON never
\* produces an error but an Ok unsuccessful envelope, while a line that is
\* valid JSON and does not match the envelope schema of the issued command
\* always produces a JsonError, never an Ok (the exit of a teardown and the
\* get_features of get_device_features included).
C11_BadResponsesDistinct ==
    /\ (DirectCallReturned /\ callLines = <<L_text>>) =>
          (result.tag = "Ok" /\ result.success = "false")
    /\ (dropping /\ CallReturned /\ callLines = <<L_text>>) =>
          (dropExit.tag = "Ok" /\ dropExit.success = "false")
    /\ ((DirectCallReturned \/ FeaturesCallReturned)
          /\ Len(callLines) = 1 /\ callLines[1].raw = "json"
          /\ SchemaMismatch(LastCommand, callLines[1].v)) =>
          (result.tag = "Err" /\ result.kind = "JsonError")
    /\ (dropping /\ CallReturned
          /\ Len(callLines) = 1 /\ callLines[1].raw = "json"
          /\ SchemaMismatch("exit", callLines[1].v)) =>
          (dropExit.tag = "Err" /\ dropExit.kind = "JsonError")

\* After a call that read a line that is not JSON (and returned Ok), a
\* get_public_key call has read the JSON number and failed with JsonError.
C11_Witness ==
    /\ DirectCallReturned
    /\ prevRaw = "text"
    /\ LastCommand = "getpk"
    /\ callLines = <<Line("json", V_number)>>
    /\ result.tag = "Err"
    /\ result.kind = "JsonError"

\* C12: initialize() returns Ok("Trezor library initialized") exactly when
\* the envelope init() returned has success = true; when the envelope of
\* init() or of get_features() has success = false, initialize() and
\* get_device_features() fail with InitializationError whose message is the
\* envelope's error string, or "Unknown error" when it has none.
C12_FacadeMapping ==
    /\ pc = "scopeEnd" =>
         /\ pending.tag = "Ok" <=>
               (Dispatch("init", resp).tag = "Ok" /\ Dispatch("init",
               resp).success = "true")
         /\ pending.tag = "Ok" =>
               (pending = OkValue("initialize", "Trezor library initialized")
                  /\ callLines = <<Line("json", V_ok)>>)
         /\ callLines = <<Line("json", V_ok)>> => pending.tag = "Ok"
         /\ callLines = <<Line("json", V_fail)>> =>
               pending = Err("initialize", "InitializationError", "Device not found")
         /\ callLines = <<Line("json", V_failNoErr)>> =>
               pending = Err("initialize", "InitializationError", "Unknown error")
    /\ (InitializeReturned /\ result.tag = "Ok") =>
          result = OkValue("initialize", "Trezor library initialized")
    /\ (FeaturesCallReturned /\ callLines = <<Line("json", V_fail)>>) =>
          result = Err("get_device_features", "InitializationError", "Device not found")
    /\ (FeaturesCallReturned /\ callLines = <<Line("json", V_failNoErr)>>) =>
          result = Err("get_device_features", "InitializationError", "Unknown error")

\* initialize() has read {"success":false} without an error string and has
\* returned InitializationError("Unknown error").
C12_Witness ==
    /\ InitializeReturned
    /\ callReqs = <<ReqExit>>
    /\ result = Err("initialize", "InitializationError", "Unknown error")

\* C13 as stated: whenever get_device_features returns Ok, the features it
\* returns have a non-empty device_id and a non-empty vendor, whatever line
\* the helper emitted.
C13_NonEmptyIds ==
    (result.of = "get_device_features" /\ result.tag = "Ok") =>
       result.details = "features"

\* C14: the request line a dispatcher method writes has exactly the command
\* and the parameter set of the wire table (init; getFeatures; getpk with
\* path and coin; getaddr with path, coin and showOnTrezor; exit), and the
\* argument values are those the caller passed.
C14_WireTable ==
    callReqs # <<>> =>
      /\ Len(callReqs) = 1
      /\ invoked.method = "init" =>
            (callReqs[1].command = "init" /\ callReqs[1].keys = {"command"})
      /\ invoked.method = "get_features" =>
            (callReqs[1].command = "getFeatures" /\ callReqs[1].keys = {"command"})
      /\ invoked.method = "exit" =>
            (callReqs[1].command = "exit" /\ callReqs[1].keys = {"command"})
      /\ invoked.method = "get_public_key" =>
            /\ callReqs[1].command = "getpk"
            /\ callReqs[1].keys = {"command", "path", "coin"}
            /\ callReqs[1].path = invoked.path
            /\ callReqs[1].coin = invoked.coin
      /\ invoked.method = "get_address" =>
            /\ callReqs[1].command = "getaddr"
            /\ callReqs[1].keys = {"command", "path", "coin", "showOnTrezor"}
            /\ callReqs[1].path = invoked.path
            /\ callReqs[1].coin = invoked.coin
            /\ callReqs[1].showOnTrezor = "true" <=> invoked.show_on_trezor
            /\ callReqs[1].showOnTrezor \in {"true", "false"}
      /\ invoked.method \in {"init", "get_features", "get_public_key", "get_address", "exit"}

\* get_public_key("m/84'/0'/0'", "Testnet") has written its request line.
C14_Witness ==
    /\ pc = "read"
    /\ invoked = Call("get_public_key", "m/84'/0'/0'", "Testnet", FALSE)
    /\ callReqs = <<[command |-> "getpk", keys |-> {"command", "path", "coin"},
                     path |-> "m/84'/0'/0'", coin |-> "Testnet", showOnTrezor |-> "-"]>>

C16_FailedWriteFrame ==
    /\ [](CallReturned /\ callReqs = <<>> =>
            (resp.tag = "Err" /\ resp.kind = "IoError" /\ callLines = <<>>))
    /\ [][(pc = "write" /\ pc' \notin {"write", "read"}) =>
            /\ resp' = SendErr("IoError", "Broken pipe (os error 32)")
            /\ op = "call" => result' = Err(cmd.command, "IoError", "Broken pipe (os error 32)")
            /\ callLines' = <<>>
            /\ consumed' = consumed
            /\ rbuf' = rbuf
            /\ pipe' = pipe
            /\ written' = written]_vars

\* After one full exchange a call has failed in its write, and the line the
\* helper had emitted in between is still unread.
C16_Witness ==
    /\ CallReturned
    /\ client = "live"
    /\ callReqs = <<>>
    /\ resp = SendErr("IoError", "Broken pipe (os error 32)")
    /\ consumed = 1
    /\ rbuf + pipe = 1

\* C17: responses are paired with requests by position only.  The k-th call
\* that reaches its read takes the k-th line the helper emitted since the
\* spawn, and no other: while it waits, k - 1 lines have been consumed, and
\* when it has returned with a line, k lines have.  So a call that writes its
\* request when a line is already buffered (the helper had emitted more
\* lines than there were requests) returns that earlier line, and as long as
\* the helper has emitted more lines than requests were written, every call
\* that writes finds such a line.
C17_PositionalPairing ==
    /\ []((pc = "read" /\ rbuf + pipe > 0) => consumed + 1 = written)
    /\ []((CallReturned /\ callLines # <<>>) =>
            (Len(callLines) = 1 /\ consumed = written))
    /\ []((pc = "read" /\ early) => rbuf + pipe >= 1)
    /\ []((CallReturned /\ callReqs # <<>> /\ early) => Len(callLines) = 1)
    /\ [][(pc = "write" /\ pc' = "read" /\ consumed + rbuf + pipe > written) =>
            (early' /\ rbuf' + pipe' >= 1)]_vars

\* The second call on a client, an init, has returned the second line, the
\* features envelope that was already buffered when init wrote its request:
\* it fails with JsonError.
C17_Witness ==
    /\ CallReturned
    /\ early
    /\ written = 2
    /\ consumed = 2
    /\ invoked.method = "init"
    /\ callLines = <<Line("json", V_features)>>
    /\ result.tag = "Err"
    /\ result.kind = "JsonError"

\* C18: a call that has written its request and meets the end of the
\* helper's stdout does not fail with IoError: it returns Ok with the
\* envelope {success: false, error: "Empty output"}, the same value a call
\* returns that read a blank line.
C18_EofAsEmpty ==
    /\ (CallReturned /\ Len(callReqs) = 1 /\ callLines = <<>>) =>
          /\ ~hStdout
          /\ resp.tag = "Ok"
          /\ resp = SendOk(JVal("object", "false", "absent", "Empty output"))
          /\ DirectCallReturned =>
                result = OkEnvelope(LastCommand, "false", "None", "Empty output")
          /\ FeaturesCallReturned =>
                result = Err("get_device_features", "InitializationError", "Empty output")
          /\ dropping => dropExit = OkEnvelope("exit", "false", "None", "Empty output")
    /\ (CallReturned /\ callLines = <<L_blank>>) =>
          resp = SendOk(JVal("object", "false", "absent", "Empty output"))

\* The helper ended after get_features had written its request: the call
\* has returned the Empty output envelope without consuming a line.
C18_Witness ==
    /\ DirectCallReturned
    /\ proc = "zombie"
    /\ callReqs = <<ReqGetFeatures>>
    /\ callLines = <<>>
    /\ result = OkEnvelope("getFeatures", "false", "None", "Empty output")

\* C19: from its construction until the wait step of its teardown a client
\* holds its stdin handle, so no call of send_command, by a caller or by
\* drop, fails with CommunicationError; the handle is absent only once the
\* process has been waited on during the destruction.
C19_StdinHeld ==
    /\ (client = "live" /\ pc \notin {"reap", "dropEnd"}) => stdinHandle = "Some"
    /\ (client = "live" /\ stdinHandle = "None") => (dropping /\ pc \in {"reap", "dropEnd"})
    /\ resp.kind # "CommunicationError"
    /\ result.kind # "CommunicationError"
    /\ pending.kind # "CommunicationError"
    /\ dropExit.kind # "CommunicationError"

\* A teardown after an explicit exit(): its own exit still had the handle
\* (the write failed with a broken pipe, not for want of a handle), and the
\* wait has now taken the handle away.
C19_Witness ==
    /\ dropping
    /\ pc = "reap"
    /\ exitCalled
    /\ stdinHandle = "None"
    /\ dropExit = Err("exit", "IoError", "Broken pipe (os error 32)")

\* C20: on every return path of initialize() after a successful spawn (Ok,
\* InitializationError, or an error of init() passed on) the client it
\* created is destroyed before initialize returns: exit was attempted, the
\* helper was waited on and is gone, and nothing is returned to the caller
\* before that.
C20_InitializeDestroys ==
    /\ InitializeReturned =>
         /\ client = "dropped"
         /\ dropExit.of = "exit"
         /\ waitRes \in {"Ok", "Err"}
         /\ stdinHandle = "None"
         /\ proc = "none"
         /\ result = pending
         /\ \/ result = OkValue("initialize", "Trezor library initialized")
            \/ result.tag = "Err"
                 /\ result.kind \in {"InitializationError", "IoError", "JsonError"}
    /\ op = "initialize" =>
         /\ result = NoResult
         /\ client = "live"
         /\ pending.tag # "-" => (pc = "scopeEnd" \/ dropping)

\* initialize() has returned Ok, and the client and the helper it had
\* started are gone.
C20_Witness ==
    /\ InitializeReturned
    /\ result = OkValue("initialize", "Trezor library initialized")
    /\ client = "dropped"
    /\ callReqs = <<ReqExit>>
    /\ proc = "none"
=============================================================================
